---- MODULE Spec2Model ----
(***************************************************************************)
(* Model of the snap grid of egui-snarl (src/src/ui/config.rs): SnapGrid,  *)
(* its constructors, snap (quad, pointy-top hex, flat-top hex) and draw.   *)
(*                                                                         *)
(* Coordinates are Rust f32 values and grid indices are Rust i32 values.   *)
(* An f32 is modelled bit-exactly as a record [m, e] that stands for the   *)
(* real number m * 2^e, with 2^23 <= |m| < 2^24 (or m = 0, e = 0), and     *)
(* every arithmetic operation rounds to nearest, ties to even, as IEEE 754 *)
(* binary32 does.  The inputs of the model keep every intermediate value   *)
(* inside the normal range of f32, so infinities, NaN and subnormal        *)
(* numbers do not occur; -0.0 is identified with 0.0 (they compare equal   *)
(* in Rust and give the same sums and products here).                      *)
(***************************************************************************)
EXTENDS Integers, Sequences, FiniteSets, TLC

----------------------------------------------------------------------------
(* f32 arithmetic *)

Pow2(k) == 2^k

Zero == [m |-> 0, e |-> 0]

Abs(i) == IF i < 0 THEN -i ELSE i

Sgn(i) == IF i < 0 THEN -1 ELSE 1

\* Number of significant bits of a natural number below 2^31.
BitLen(M) ==
  IF M >= Pow2(30) THEN 31
  ELSE CHOOSE n \in 0..30 : M < Pow2(n) /\ (n = 0 \/ M >= Pow2(n - 1))

\* Whether rounding M * 2^e (plus a nonzero tail below it when sticky) to 24
\* significant bits loses anything.
Inexact(M, sticky) ==
  sticky \/ (BitLen(M) > 24 /\ M % Pow2(BitLen(M) - 24) # 0)

\* The f32 nearest to sgn * (M + tail) * 2^e, ties to even; tail is a value
\* in (0, 1) when sticky and 0 otherwise.  M < 2^31.
Pack(sgn, M, e, sticky) ==
  IF M = 0 THEN Zero
  ELSE LET n == BitLen(M) IN
    IF n <= 24
      THEN [m |-> sgn * M * Pow2(24 - n), e |-> e - (24 - n)]
      ELSE LET k    == n - 24
               q    == M \div Pow2(k)
               r    == M % Pow2(k)
               half == Pow2(k - 1)
               up   == r > half \/ (r = half /\ (sticky \/ q % 2 = 1))
               q2   == IF up THEN q + 1 ELSE q
           IN IF q2 = Pow2(24)
                THEN [m |-> sgn * Pow2(23), e |-> e + k + 1]
                ELSE [m |-> sgn * q2, e |-> e + k]

\* The f32 equal to the integer n * 2^e scaled (exact when |n| < 2^24).
F(n, e) == Pack(Sgn(n), Abs(n), e, FALSE)

FNeg(a) == [m |-> -a.m, e |-> a.e]

FAbs(a) == [m |-> Abs(a.m), e |-> a.e]

\* The 48-bit product of two 24-bit significands as <<high 30 bits, sticky>>.
MulParts(a, b) ==
  LET a1 == a \div 4096
      a0 == a % 4096
      b1 == b \div 4096
      b0 == b % 4096
      cross == a1 * b0 + a0 * b1
      lsum  == (cross % 4096) * 4096 + a0 * b0
      H == a1 * b1 + cross \div 4096 + lsum \div Pow2(24)
      L == lsum % Pow2(24)
  IN <<H * 64 + L \div Pow2(18), L % Pow2(18) # 0>>

\* a * b in f32.
FMul(a, b) ==
  IF a.m = 0 \/ b.m = 0 THEN Zero
  ELSE LET p == MulParts(Abs(a.m), Abs(b.m))
       IN Pack(Sgn(a.m) * Sgn(b.m), p[1], a.e + b.e + 18, p[2])

\* Whether the real product a * b is an f32.
FMulExact(a, b) ==
  a.m = 0 \/ b.m = 0 \/
  LET p == MulParts(Abs(a.m), Abs(b.m)) IN ~Inexact(p[1], p[2])

\* One step of long division: seven more quotient bits.
DivStep(qr, b) == <<qr[1] * 128 + (qr[2] * 128) \div b, (qr[2] * 128) % b>>

\* a / b in f32 (b # 0).
FDiv(a, b) ==
  IF a.m = 0 THEN Zero
  ELSE LET x  == Abs(a.m)
           y  == Abs(b.m)
           q0 == <<x \div y, x % y>>
           q4 == DivStep(DivStep(DivStep(DivStep(q0, y), y), y), y)
       IN Pack(Sgn(a.m) * Sgn(b.m), q4[1], a.e - b.e - 28, q4[2] # 0)

\* hi + lo in f32, where hi.e >= lo.e and both are nonzero.
AddOrdered(hi, lo) ==
  LET d == hi.e - lo.e IN
  IF d <= 6
    THEN LET s == hi.m * Pow2(d) + lo.m
         IN Pack(Sgn(s), Abs(s), lo.e, FALSE)
    ELSE LET X   == Abs(hi.m) * 64
             sh  == d - 6
             Y   == IF sh >= 25 THEN 0 ELSE Abs(lo.m) \div Pow2(sh)
             st  == sh >= 25 \/ Abs(lo.m) % Pow2(sh) # 0
             same == Sgn(hi.m) = Sgn(lo.m)
             M   == IF same THEN X + Y
                    ELSE IF st THEN X - Y - 1 ELSE X - Y
         IN Pack(Sgn(hi.m), M, hi.e - 6, st)

\* a + b in f32.
FAdd(a, b) ==
  IF a.m = 0 THEN b
  ELSE IF b.m = 0 THEN a
  ELSE IF a.e >= b.e THEN AddOrdered(a, b) ELSE AddOrdered(b, a)

\* a - b in f32.
FSub(a, b) == FAdd(a, FNeg(b))

\* a < b on f32 values.
FLt(a, b) ==
  IF a.m = 0 THEN b.m > 0
  ELSE IF b.m = 0 THEN a.m < 0
  ELSE IF Sgn(a.m) # Sgn(b.m) THEN a.m < 0
  ELSE IF a.m > 0
    THEN a.e < b.e \/ (a.e = b.e /\ a.m < b.m)
    ELSE a.e > b.e \/ (a.e = b.e /\ a.m < b.m)

\* a <= b on f32 values.
FLe(a, b) == a = b \/ FLt(a, b)

\* f32::round: to the nearest integer, ties away from zero.
FRound(a) ==
  IF a.e >= 0 \/ a.m = 0 THEN a
  ELSE LET k == -a.e IN
    IF k >= 25 THEN Zero
    ELSE LET I == Abs(a.m) \div Pow2(k)
             f == Abs(a.m) % Pow2(k)
             J == IF f >= Pow2(k - 1) THEN I + 1 ELSE I
         IN Pack(Sgn(a.m), J, 0, FALSE)

\* f32::floor.
FFloor(a) ==
  IF a.e >= 0 \/ a.m = 0 THEN a
  ELSE LET k == -a.e
           I == IF k >= 25 THEN 0 ELSE Abs(a.m) \div Pow2(k)
           f == IF k >= 25 THEN 1 ELSE Abs(a.m) % Pow2(k)
       IN IF a.m > 0 THEN Pack(1, I, 0, FALSE)
          ELSE Pack(-1, IF f # 0 THEN I + 1 ELSE I, 0, FALSE)

\* f32::ceil.
FCeil(a) == FNeg(FFloor(FNeg(a)))

----------------------------------------------------------------------------
(* i32 arithmetic *)

I32Max == 2147483647

I32Min == -I32Max - 1

\* `f as i32`: truncates toward zero and saturates at the ends of i32.
ToI32(a) ==
  IF a.m = 0 THEN 0
  ELSE IF a.e >= 8 THEN (IF a.m > 0 THEN I32Max ELSE I32Min)
  ELSE IF a.e >= 0 THEN a.m * Pow2(a.e)
  ELSE IF -a.e >= 24 THEN 0
  ELSE Sgn(a.m) * (Abs(a.m) \div Pow2(-a.e))

\* `i as f32`: the nearest f32, ties to even.
FromI32(i) ==
  IF i = I32Min THEN [m |-> -Pow2(23), e |-> 8] ELSE F(i, 0)

\* i32::abs: overflows on i32::MIN, where the wrapped result is i32::MIN.
AbsI32(i) ==
  IF i = I32Min THEN [v |-> I32Min, ovf |-> TRUE]
  ELSE [v |-> Abs(i), ovf |-> FALSE]

\* `a % b` on i32 for b > 0: the remainder has the sign of a.
RemI32(a, b) ==
  IF a >= 0 \/ a % b = 0 THEN a % b ELSE (a % b) - b

\* `a + 1` on i32: overflows on i32::MAX, where the wrapped result is i32::MIN.
IncI32(a) ==
  IF a = I32Max THEN [v |-> I32Min, ovf |-> TRUE]
  ELSE [v |-> a + 1, ovf |-> FALSE]

\* `a - 1` on i32: overflows on i32::MIN, where the wrapped result is i32::MAX.
DecI32(a) ==
  IF a = I32Min THEN [v |-> I32Max, ovf |-> TRUE]
  ELSE [v |-> a - 1, ovf |-> FALSE]

----------------------------------------------------------------------------
(* The program state *)

VARIABLES
  grid,             \* the SnapGrid value held by the host
  overflow_checks,  \* build profile: TRUE when integer overflow panics (debug)
  pc,               \* "ready", "returned" (a call has returned) or "panicked"
  call              \* the last call of snap or draw, its argument and its result

vars == <<grid, overflow_checks, pc, call>>

Pos2(px, py) == [x |-> px, y |-> py]

Rect(pmin, pmax) == [min |-> pmin, max |-> pmax]

Origin == Pos2(Zero, Zero)

\* egui's Rect::contains, as called by draw_hex_pointy and draw_hex_flat.
Contains(r, p) ==
  /\ FLe(r.min.x, p.x) /\ FLe(p.x, r.max.x)
  /\ FLe(r.min.y, p.y) /\ FLe(p.y, r.max.y)

\* The literal 0.866_025_4: the f32 nearest to that decimal.
COS30 == FDiv(F(8660254, 0), F(10000000, 0))

Two == F(2, 0)

\* SnapGrid::quad, SnapGrid::hex_pointy, SnapGrid::hex_flat.
quad(size) == [size |-> size, grid_type |-> "Quad", visible |-> FALSE]

hex_pointy(size) == [size |-> size, grid_type |-> "HexPointy", visible |-> FALSE]

hex_flat(size) == [size |-> size, grid_type |-> "HexFlat", visible |-> FALSE]

\* SnapGrid::default.
Default == [size |-> F(25, 0), grid_type |-> "Quad", visible |-> FALSE]

\* SnapGrid::with_visible.
with_visible(self, visible) == [self EXCEPT !.visible = visible]

----------------------------------------------------------------------------
(* snap *)

\* A returned position, or a panic (integer overflow under overflow checks).
Ok(p) == [panic |-> FALSE, val |-> p]

Panic == [panic |-> TRUE, val |-> Origin]

\* Variant of snap_quad: floor in place of round.
snap_quad_floor(self, pos) ==
  Ok(Pos2(FMul(FFloor(FDiv(pos.x, self.size)), self.size),
          FMul(FFloor(FDiv(pos.y, self.size)), self.size)))

\* Variant of snap_quad: floor(q + 0.5), which takes ties toward +infinity.
snap_quad_half_up(self, pos) ==
  Ok(Pos2(FMul(FFloor(FAdd(FDiv(pos.x, self.size), F(1, -1))), self.size),
          FMul(FFloor(FAdd(FDiv(pos.y, self.size), F(1, -1))), self.size)))

snap_quad(self, pos) ==
  Ok(Pos2(FMul(FRound(FDiv(pos.x, self.size)), self.size),
          FMul(FRound(FDiv(pos.y, self.size)), self.size)))

\* Squared distance between two positions, in f32.
Dist2(p, q) ==
  FAdd(FMul(FSub(p.x, q.x), FSub(p.x, q.x)), FMul(FSub(p.y, q.y), FSub(p.y, q.y)))

\* Variant of snap_hex_pointy: the column is rounded without taking the row's
\* offset off first.
snap_hex_pointy_no_offset(self, pos) ==
  LET vert_spacing  == FMul(self.size, COS30)
      horiz_spacing == self.size
      row           == FRound(FDiv(pos.y, vert_spacing))
      snapped_y     == FMul(row, vert_spacing)
      abs_row       == AbsI32(ToI32(row))
      is_odd_row    == RemI32(abs_row.v, 2) = 1
      x_offset      == IF is_odd_row THEN FDiv(horiz_spacing, Two) ELSE Zero
      snapped_x     ==
        FAdd(FMul(FRound(FDiv(pos.x, horiz_spacing)), horiz_spacing), x_offset)
  IN IF abs_row.ovf /\ overflow_checks THEN Panic
     ELSE Ok(Pos2(snapped_x, snapped_y))

\* Variant of snap_hex_pointy: a nearest-vertex search over the rounded row and
\* the rows above and below it.
snap_hex_pointy_nearest(self, pos) ==
  LET vert_spacing  == FMul(self.size, COS30)
      horiz_spacing == self.size
      row0          == FRound(FDiv(pos.y, vert_spacing))
      InRow(row)    ==
        LET is_odd_row == RemI32(AbsI32(ToI32(row)).v, 2) = 1
            x_offset   == IF is_odd_row THEN FDiv(horiz_spacing, Two) ELSE Zero
        IN Pos2(FAdd(FMul(FRound(FDiv(FSub(pos.x, x_offset), horiz_spacing)),
                          horiz_spacing), x_offset),
                FMul(row, vert_spacing))
      cands == {InRow(FAdd(row0, F(d, 0))) : d \in {-1, 0, 1}}
  IN Ok(CHOOSE v \in cands : \A w \in cands : FLe(Dist2(pos, v), Dist2(pos, w)))

snap_hex_pointy(self, pos) ==
  LET vert_spacing  == FMul(self.size, COS30)
      horiz_spacing == self.size
      row           == FRound(FDiv(pos.y, vert_spacing))
      snapped_y     == FMul(row, vert_spacing)
      abs_row       == AbsI32(ToI32(row))
      is_odd_row    == RemI32(abs_row.v, 2) = 1
      x_offset      == IF is_odd_row THEN FDiv(horiz_spacing, Two) ELSE Zero
      snapped_x     ==
        FAdd(FMul(FRound(FDiv(FSub(pos.x, x_offset), horiz_spacing)),
                  horiz_spacing), x_offset)
  IN IF abs_row.ovf /\ overflow_checks THEN Panic
     ELSE Ok(Pos2(snapped_x, snapped_y))

snap_hex_flat(self, pos) ==
  LET horiz_spacing == FMul(self.size, COS30)
      vert_spacing  == self.size
      col           == FRound(FDiv(pos.x, horiz_spacing))
      snapped_x     == FMul(col, horiz_spacing)
      abs_col       == AbsI32(ToI32(col))
      is_odd_col    == RemI32(abs_col.v, 2) = 1
      y_offset      == IF is_odd_col THEN FDiv(vert_spacing, Two) ELSE Zero
      snapped_y     ==
        FAdd(FMul(FRound(FDiv(FSub(pos.y, y_offset), vert_spacing)),
                  vert_spacing), y_offset)
  IN IF abs_col.ovf /\ overflow_checks THEN Panic
     ELSE Ok(Pos2(snapped_x, snapped_y))

snap(self, pos) ==
  CASE self.grid_type = "Quad"      -> snap_quad(self, pos)
    [] self.grid_type = "HexPointy" -> snap_hex_pointy(self, pos)
    [] self.grid_type = "HexFlat"   -> snap_hex_flat(self, pos)

----------------------------------------------------------------------------
(* draw *)

\* The points handed to painter.circle_filled, in order, or a panic.
Painted(points) == [panic |-> FALSE, painted |-> points]

DrawPanic == [panic |-> TRUE, painted |-> <<>>]

\* Number of values of the range lo..=hi.
RangeLen(lo, hi) == IF hi < lo THEN 0 ELSE hi - lo + 1

draw_quad(self, viewport) ==
  LET min_x == ToI32(FFloor(FDiv(viewport.min.x, self.size)))
      max_x == ToI32(FCeil(FDiv(viewport.max.x, self.size)))
      min_y == ToI32(FFloor(FDiv(viewport.min.y, self.size)))
      max_y == ToI32(FCeil(FDiv(viewport.max.y, self.size)))
      nx    == RangeLen(min_x, max_x)
      ny    == RangeLen(min_y, max_y)
  IN Painted([k \in 1..(nx * ny) |->
       LET xi == min_x + ((k - 1) \div ny)
           yi == min_y + ((k - 1) % ny)
       IN Pos2(FMul(FromI32(xi), self.size), FMul(FromI32(yi), self.size))])

\* Variant of draw_hex_pointy: every cell of the widened range is painted,
\* inside the viewport or not.
draw_hex_pointy_unfiltered(self, viewport) ==
  LET vert_spacing  == FMul(self.size, COS30)
      horiz_spacing == self.size
      min_row == DecI32(ToI32(FFloor(FDiv(viewport.min.y, vert_spacing))))
      max_row == IncI32(ToI32(FCeil(FDiv(viewport.max.y, vert_spacing))))
      min_col == DecI32(ToI32(FFloor(FDiv(viewport.min.x, horiz_spacing))))
      max_col == IncI32(ToI32(FCeil(FDiv(viewport.max.x, horiz_spacing))))
      nrow    == RangeLen(min_row.v, max_row.v)
      ncol    == RangeLen(min_col.v, max_col.v)
      cells   == [k \in 1..(nrow * ncol) |->
        LET row == min_row.v + ((k - 1) \div ncol)
            col == min_col.v + ((k - 1) % ncol)
            y   == FMul(FromI32(row), vert_spacing)
            x_offset == IF RemI32(AbsI32(row).v, 2) = 1
                        THEN FDiv(horiz_spacing, Two) ELSE Zero
            x   == FAdd(FMul(FromI32(col), horiz_spacing), x_offset)
        IN Pos2(x, y)]
  IN IF overflow_checks
        /\ (min_row.ovf \/ max_row.ovf \/ min_col.ovf \/ max_col.ovf)
       THEN DrawPanic
       ELSE Painted(cells)

\* Variant of draw_hex_pointy: the parity of the row is taken without abs(),
\* so that a negative odd row (row % 2 = -1) gets no offset.
draw_hex_pointy_signed_parity(self, viewport) ==
  LET vert_spacing  == FMul(self.size, COS30)
      horiz_spacing == self.size
      min_row == DecI32(ToI32(FFloor(FDiv(viewport.min.y, vert_spacing))))
      max_row == IncI32(ToI32(FCeil(FDiv(viewport.max.y, vert_spacing))))
      min_col == DecI32(ToI32(FFloor(FDiv(viewport.min.x, horiz_spacing))))
      max_col == IncI32(ToI32(FCeil(FDiv(viewport.max.x, horiz_spacing))))
      nrow    == RangeLen(min_row.v, max_row.v)
      ncol    == RangeLen(min_col.v, max_col.v)
      cells   == [k \in 1..(nrow * ncol) |->
        LET row == min_row.v + ((k - 1) \div ncol)
            col == min_col.v + ((k - 1) % ncol)
            y   == FMul(FromI32(row), vert_spacing)
            x_offset == IF RemI32(row, 2) = 1
                        THEN FDiv(horiz_spacing, Two) ELSE Zero
            x   == FAdd(FMul(FromI32(col), horiz_spacing), x_offset)
        IN Pos2(x, y)]
  IN IF overflow_checks
        /\ (min_row.ovf \/ max_row.ovf \/ min_col.ovf \/ max_col.ovf)
       THEN DrawPanic
       ELSE Painted(SelectSeq(cells, LAMBDA pos : Contains(viewport, pos)))

draw_hex_pointy(self, viewport) ==
  LET vert_spacing  == FMul(self.size, COS30)
      horiz_spacing == self.size
      min_row == DecI32(ToI32(FFloor(FDiv(viewport.min.y, vert_spacing))))
      max_row == IncI32(ToI32(FCeil(FDiv(viewport.max.y, vert_spacing))))
      min_col == DecI32(ToI32(FFloor(FDiv(viewport.min.x, horiz_spacing))))
      max_col == IncI32(ToI32(FCeil(FDiv(viewport.max.x, horiz_spacing))))
      nrow    == RangeLen(min_row.v, max_row.v)
      ncol    == RangeLen(min_col.v, max_col.v)
      cells   == [k \in 1..(nrow * ncol) |->
        LET row == min_row.v + ((k - 1) \div ncol)
            col == min_col.v + ((k - 1) % ncol)
            y   == FMul(FromI32(row), vert_spacing)
            x_offset == IF RemI32(AbsI32(row).v, 2) = 1
                        THEN FDiv(horiz_spacing, Two) ELSE Zero
            x   == FAdd(FMul(FromI32(col), horiz_spacing), x_offset)
        IN Pos2(x, y)]
  IN IF overflow_checks
        /\ (min_row.ovf \/ max_row.ovf \/ min_col.ovf \/ max_col.ovf)
       THEN DrawPanic
       ELSE Painted(SelectSeq(cells, LAMBDA pos : Contains(viewport, pos)))

draw_hex_flat(self, viewport) ==
  LET horiz_spacing == FMul(self.size, COS30)
      vert_spacing  == self.size
      min_col == DecI32(ToI32(FFloor(FDiv(viewport.min.x, horiz_spacing))))
      max_col == IncI32(ToI32(FCeil(FDiv(viewport.max.x, horiz_spacing))))
      min_row == DecI32(ToI32(FFloor(FDiv(viewport.min.y, vert_spacing))))
      max_row == IncI32(ToI32(FCeil(FDiv(viewport.max.y, vert_spacing))))
      ncol    == RangeLen(min_col.v, max_col.v)
      nrow    == RangeLen(min_row.v, max_row.v)
      cells   == [k \in 1..(ncol * nrow) |->
        LET col == min_col.v + ((k - 1) \div nrow)
            row == min_row.v + ((k - 1) % nrow)
            x   == FMul(FromI32(col), horiz_spacing)
            y_offset == IF RemI32(AbsI32(col).v, 2) = 1
                        THEN FDiv(vert_spacing, Two) ELSE Zero
            y   == FAdd(FMul(FromI32(row), vert_spacing), y_offset)
        IN Pos2(x, y)]
  IN IF overflow_checks
        /\ (min_row.ovf \/ max_row.ovf \/ min_col.ovf \/ max_col.ovf)
       THEN DrawPanic
       ELSE Painted(SelectSeq(cells, LAMBDA pos : Contains(viewport, pos)))

draw(self, viewport) ==
  IF ~self.visible THEN Painted(<<>>)
  ELSE CASE self.grid_type = "Quad"      -> draw_quad(self, viewport)
         [] self.grid_type = "HexPointy" -> draw_hex_pointy(self, viewport)
         [] self.grid_type = "HexFlat"   -> draw_hex_flat(self, viewport)

----------------------------------------------------------------------------
(* Inputs *)

\* Snapped positions and viewports reach this many cells from the origin.
MaxCell == 1

MaxView == 1

\* Grid sizes the host configures.
Sizes == {F(25, 0), F(10, 0), F(3, 0), F(1, 0)}

\* i eighths of a cell.
Eighths(size, i) == FMul(F(i, -3), size)

\* Coordinates near the origin: every eighth of a cell up to MaxCell cells.
NearCoords(size) == {Eighths(size, i) : i \in (-8 * MaxCell)..(8 * MaxCell)}

\* 12.6, the decimal of the documented example.
TwelvePointSix == FDiv(F(126, 0), F(10, 0))

\* Coordinates 2^20 cells out: the last half cell, the last eighths, the end.
EdgeCoords(size) ==
  {FMul(F(n, -3), size) : n \in {Pow2(23) - 4, Pow2(23) - 3, Pow2(23), 5 - Pow2(23)}}

\* 16777226 = 8388613 * 2: past 2^24, where an f32 resolves only even integers.
Coarse == F(8388613, 1)

\* 2^36: more than 2^31 cells out for every size of Sizes.
Far == F(1, 36)

\* The positions the host snaps.
Positions(size) ==
  {Pos2(px, py) : px \in NearCoords(size), py \in NearCoords(size)}
  \cup {Pos2(TwelvePointSix, FNeg(TwelvePointSix))}
  \cup {Pos2(px, py) : px \in EdgeCoords(size), py \in EdgeCoords(size)}
  \cup {Pos2(Coarse, Zero), Pos2(Zero, Coarse), Pos2(FNeg(Coarse), FNeg(Coarse))}
  \cup {Pos2(px, py) : px \in {Eighths(size, 2), Far, FNeg(Far)},
                       py \in {Eighths(size, 2), Far, FNeg(Far)}}

\* Viewport corners near the origin: every half cell up to MaxView cells.
Corners(size) == {Eighths(size, 4 * i) : i \in (-2 * MaxView)..(2 * MaxView)}

\* Viewport widths and heights.
Extents(size) == {Zero, Eighths(size, 6), Eighths(size, 16)}

\* Rect::from_min_size.
FromMinSize(pmin, w, h) == Rect(pmin, Pos2(FAdd(pmin.x, w), FAdd(pmin.y, h)))

\* The viewports the host draws.
Viewports(size) ==
  {FromMinSize(Pos2(px, py), w, h) :
     px \in Corners(size), py \in Corners(size),
     w \in Extents(size), h \in Extents(size)}
  \cup {FromMinSize(Pos2(px, py), size, size) :
     px \in {Zero, FMul(F(1 - Pow2(20), 0), size), FMul(F(Pow2(20) - 1, 0), size)},
     py \in {Zero, FMul(F(1 - Pow2(20), 0), size), FMul(F(Pow2(20) - 1, 0), size)}}
  \cup {FromMinSize(Pos2(px, py), Two, Two) :
     px \in {Zero, Coarse, FNeg(Coarse)}, py \in {Zero, Coarse, FNeg(Coarse)}}
  \cup {FromMinSize(Pos2(px, py), size, size) :
     px \in {Zero, Far, FNeg(Far)}, py \in {Zero, Far, FNeg(Far)}}

----------------------------------------------------------------------------
(* Actions *)

NoCall ==
  [op |-> "none", pos |-> Origin, viewport |-> Rect(Origin, Origin),
   ret |-> Origin, painted |-> <<>>]

Init ==
  /\ grid = Default
  /\ overflow_checks \in BOOLEAN
  /\ pc = "ready"
  /\ call = NoCall

\* The host replaces its grid by SnapGrid::quad(size).
NewQuad ==
  /\ pc = "ready"
  /\ \E size \in Sizes : grid' = quad(size)
  /\ UNCHANGED <<overflow_checks, pc, call>>

\* The host replaces its grid by SnapGrid::hex_pointy(size).
NewHexPointy ==
  /\ pc = "ready"
  /\ \E size \in Sizes : grid' = hex_pointy(size)
  /\ UNCHANGED <<overflow_checks, pc, call>>

\* The host replaces its grid by SnapGrid::hex_flat(size).
NewHexFlat ==
  /\ pc = "ready"
  /\ \E size \in Sizes : grid' = hex_flat(size)
  /\ UNCHANGED <<overflow_checks, pc, call>>

\* grid = grid.with_visible(visible).
WithVisible ==
  /\ pc = "ready"
  /\ \E visible \in BOOLEAN : grid' = with_visible(grid, visible)
  /\ UNCHANGED <<overflow_checks, pc, call>>

\* grid.snap(pos): returns the snapped position or panics.
Snap ==
  /\ pc = "ready"
  /\ \E pos \in Positions(grid.size) :
       LET r == snap(grid, pos) IN
       /\ call' = [NoCall EXCEPT !.op = "snap", !.pos = pos, !.ret = r.val]
       /\ pc' = IF r.panic THEN "panicked" ELSE "returned"
  /\ UNCHANGED <<grid, overflow_checks>>

\* grid.draw(viewport, painter): paints the points or panics.
Draw ==
  /\ pc = "ready"
  /\ \E viewport \in Viewports(grid.size) :
       LET r == draw(grid, viewport) IN
       /\ call' = [NoCall EXCEPT !.op = "draw", !.viewport = viewport,
                                 !.painted = r.painted]
       /\ pc' = IF r.panic THEN "panicked" ELSE "returned"
  /\ UNCHANGED <<grid, overflow_checks>>

\* The host takes the result of the call and goes on.
Return ==
  /\ pc = "returned"
  /\ pc' = "ready"
  /\ call' = NoCall
  /\ UNCHANGED <<grid, overflow_checks>>

\* The host positions nodes: it configures the grid and snaps positions.
NextSnap ==
  \/ NewQuad
  \/ NewHexPointy
  \/ NewHexFlat
  \/ WithVisible
  \/ Snap
  \/ Return

\* The host renders frames: it configures the grid and draws it.
NextDraw ==
  \/ NewQuad
  \/ NewHexPointy
  \/ NewHexFlat
  \/ WithVisible
  \/ Draw
  \/ Return

Next == NextSnap \/ NextDraw

Spec == Init /\ [][Next]_vars

SpecSnap == Init /\ [][NextSnap]_vars

SpecDraw == Init /\ [][NextDraw]_vars

----------------------------------------------------------------------------
(* Properties of snap *)

\* A call of snap has returned (it did not panic).
SnapDone == pc = "returned" /\ call.op = "snap"

IsQuad == grid.grid_type = "Quad"

IsHex == grid.grid_type \in {"HexPointy", "HexFlat"}

\* Both coordinates lie within 2^20 cells of the origin.
InRange(pos, size) ==
  /\ FLe(FAbs(pos.x), FMul(F(1, 20), size))
  /\ FLe(FAbs(pos.y), FMul(F(1, 20), size))

\* C1 as stated: every value returned by snap is a fixed point of snap.
C1_Idempotent ==
  SnapDone => snap(grid, call.ret) = Ok(call.ret)

\* C1 as amended: within 2^20 cells of the origin (where an f32 resolves the
\* lattice) every value returned by snap is a fixed point of snap.
C1_IdempotentInRange ==
  (SnapDone /\ InRange(call.pos, grid.size)) =>
    snap(grid, call.ret) = Ok(call.ret)

\* C1 witness: a hex snap 2^20 cells out moved the point to a fixed point.
C1_Witness ==
  /\ SnapDone /\ IsHex /\ InRange(call.pos, grid.size)
  /\ call.pos.x \in EdgeCoords(grid.size)
  /\ call.ret # call.pos
  /\ snap(grid, call.ret) = Ok(call.ret)

\* The odd n with pos = (n/2) * size exactly, for the half cells of the inputs.
HalfCells ==
  {n \in (-(2 * MaxCell + 1))..(2 * MaxCell + 1) : n % 2 = 1}
  \cup {Pow2(21) - 1, 1 - Pow2(21)}

IsHalfCell(c, size, n) == FMulExact(F(n, -1), size) /\ c = FMul(F(n, -1), size)

\* (n/2) * size rounded away from zero to a multiple of size.
AwayFromZero(size, n) ==
  FMul(F(IF n > 0 THEN (n + 1) \div 2 ELSE (n - 1) \div 2, 0), size)

\* C2: a quad snap takes a coordinate exactly halfway between two multiples of
\* size to the multiple away from zero, and each coordinate of the result is
\* decided by the same coordinate of the input alone.
C2_QuadHalfAwayFromZero ==
  (SnapDone /\ IsQuad) =>
    /\ \A n \in HalfCells :
         /\ IsHalfCell(call.pos.x, grid.size, n) =>
              call.ret.x = AwayFromZero(grid.size, n)
         /\ IsHalfCell(call.pos.y, grid.size, n) =>
              call.ret.y = AwayFromZero(grid.size, n)
    /\ \A other \in NearCoords(grid.size) :
         /\ snap(grid, Pos2(call.pos.x, other)).val.x = call.ret.x
         /\ snap(grid, Pos2(other, call.pos.y)).val.y = call.ret.y

\* C2 witness: size 25, snap((12.5, 0)) returned (25, 0).
C2_Witness ==
  /\ SnapDone /\ IsQuad /\ grid.size = F(25, 0)
  /\ call.pos = Pos2(F(25, -1), Zero)
  /\ call.ret = Pos2(F(25, 0), Zero)

\* C7 as stated: size 25, snap((12.6, -12.6)) returns (0, -25).
C7_ExampleAsStated ==
  (SnapDone /\ IsQuad /\ grid.size = F(25, 0)
     /\ call.pos = Pos2(TwelvePointSix, FNeg(TwelvePointSix))) =>
    call.ret = Pos2(Zero, F(-25, 0))

\* C7 as amended: size 25, snap((12.6, -12.6)) returns (25, -25).
C7_Example ==
  (SnapDone /\ IsQuad /\ grid.size = F(25, 0)
     /\ call.pos = Pos2(TwelvePointSix, FNeg(TwelvePointSix))) =>
    call.ret = Pos2(F(25, 0), F(-25, 0))

\* C7 witness: that call has returned.
C7_Witness ==
  /\ SnapDone /\ IsQuad /\ grid.size = F(25, 0)
  /\ call.pos = Pos2(TwelvePointSix, FNeg(TwelvePointSix))
  /\ call.ret.x = F(25, 0)

\* Whether an integer-valued f32 is an odd integer.
IsOddF(r) ==
  IF r.m = 0 \/ r.e > 0 THEN FALSE
  ELSE (Abs(r.m) \div Pow2(-r.e)) % 2 = 1

\* The integers within one of the f32 q.
Around(q) == {FAdd(FRound(q), F(d, 0)) : d \in {-1, 0, 1}}

\* The hex lattice vertex of row r and column c (column r and row c for
\* HexFlat): rows are size * sqrt(3)/2 apart, columns size apart, and the
\* odd rows are shifted by size/2.  r and c are integer-valued f32.
HexVertex(self, r, c) ==
  LET off   == IF IsOddF(r) THEN FDiv(self.size, Two) ELSE Zero
      along == FMul(r, FMul(self.size, COS30))
      cross == FAdd(FMul(c, self.size), off)
  IN IF self.grid_type = "HexPointy" THEN Pos2(cross, along) ELSE Pos2(along, cross)

\* The rounded row quotient of pos (column quotient for HexFlat).
RowOf(self, pos) ==
  FRound(FDiv(IF self.grid_type = "HexPointy" THEN pos.y ELSE pos.x,
              FMul(self.size, COS30)))

\* The integers within one of the column quotient of pos (row quotient for
\* HexFlat), whatever the offset.
ColsNear(self, pos) ==
  Around(FDiv(IF self.grid_type = "HexPointy" THEN pos.x ELSE pos.y, self.size))

\* C3 as stated: a hex snap returns (c * s + off, r * s * sqrt(3)/2) with r the
\* rounded row quotient, c an integer and off = s/2 exactly when |r| is odd
\* (rows and columns swapped for HexFlat).
C3_HexLattice ==
  (SnapDone /\ IsHex) =>
    \E c \in ColsNear(grid, call.pos) :
      call.ret = HexVertex(grid, RowOf(grid, call.pos), c)

\* C4 as stated: snap never panics.
C4_SnapTotal ==
  call.op = "snap" => pc # "panicked"

\* The position is at least 3/8 of a cell, on both axes, from every vertex of
\* the row it is nearest to (column for HexFlat).
InBand(self, pos) ==
  \A c \in ColsNear(self, pos) :
    LET v == HexVertex(self, RowOf(self, pos), c) IN
    /\ FLe(FMul(F(3, -3), self.size), FAbs(FSub(pos.x, v.x)))
    /\ FLe(FMul(F(3, -3), self.size), FAbs(FSub(pos.y, v.y)))

\* The lattice vertices of the rows above and below that row, near pos.
Neighbours(self, pos) ==
  {HexVertex(self, FAdd(RowOf(self, pos), F(d, 0)), c) :
     d \in {-1, 1}, c \in ColsNear(self, pos)}

----------------------------------------------------------------------------
(* Properties of draw *)

\* A call of draw on a visible grid has returned (it did not panic).
DrawDone == pc = "returned" /\ call.op = "draw" /\ grid.visible

\* A call of draw on a visible grid has returned or panicked.
DrawCalled == call.op = "draw" /\ grid.visible

\* The points painted by the call, as a set of indices into call.painted.
Emitted == 1..Len(call.painted)

\* The integer-valued f32 from floor(lo) - 2 to ceil(hi) + 2.
Indices(lo, hi) ==
  {i \in {FAdd(FFloor(lo), F(d, 0)) : d \in -2..8} :
     FLe(i, FAdd(FCeil(hi), Two))}

\* The hex lattice vertices of the rows and columns that reach the viewport,
\* and of the two rows and columns beyond it on each side.
LatticeNear(self, viewport) ==
  LET along_min == IF self.grid_type = "HexPointy"
                   THEN viewport.min.y ELSE viewport.min.x
      along_max == IF self.grid_type = "HexPointy"
                   THEN viewport.max.y ELSE viewport.max.x
      cross_min == IF self.grid_type = "HexPointy"
                   THEN viewport.min.x ELSE viewport.min.y
      cross_max == IF self.grid_type = "HexPointy"
                   THEN viewport.max.x ELSE viewport.max.y
      spacing   == FMul(self.size, COS30)
  IN {HexVertex(self, r, c) :
        r \in Indices(FDiv(along_min, spacing), FDiv(along_max, spacing)),
        c \in Indices(FDiv(cross_min, self.size), FDiv(cross_max, self.size))}

\* The corners of the viewport lie within 2^20 cells of the origin.
ViewInRange(viewport, size) ==
  InRange(viewport.min, size) /\ InRange(viewport.max, size)

\* C5: every point a hex draw paints lies inside the viewport.
C5_HexContainment ==
  (DrawCalled /\ IsHex) =>
    \A k \in Emitted : Contains(call.viewport, call.painted[k])

\* C5 witness: a hex draw painted points although lattice vertices of the
\* enumerated rows and columns lie outside the viewport.
C5_Witness ==
  /\ DrawDone /\ IsHex
  /\ call.painted # <<>>
  /\ \E v \in LatticeNear(grid, call.viewport) : ~Contains(call.viewport, v)

\* C6 as stated: a quad draw paints exactly one point (i * s, j * s) for every
\* integer pair with floor(min.x / s) <= i <= ceil(max.x / s) and
\* floor(min.y / s) <= j <= ceil(max.y / s), column by column; their number
\* is the product of the two range lengths, and each painted point is at most
\* one cell outside the viewport.
C6_QuadBoundingBox ==
  (DrawCalled /\ IsQuad) =>
    LET s  == grid.size
        V  == call.viewport
        fx == FFloor(FDiv(V.min.x, s))
        cx == FCeil(FDiv(V.max.x, s))
        fy == FFloor(FDiv(V.min.y, s))
        cy == FCeil(FDiv(V.max.y, s))
        nx == ToI32(FSub(cx, fx)) + 1
        ny == ToI32(FSub(cy, fy)) + 1
    IN /\ pc = "returned"
       /\ Len(call.painted) = nx * ny
       /\ \A k \in Emitted :
            /\ call.painted[k].x = FMul(FAdd(fx, F((k - 1) \div ny, 0)), s)
            /\ call.painted[k].y = FMul(FAdd(fy, F((k - 1) % ny, 0)), s)
            /\ FLe(FSub(V.min.x, s), call.painted[k].x)
            /\ FLe(call.painted[k].x, FAdd(V.max.x, s))
            /\ FLe(FSub(V.min.y, s), call.painted[k].y)
            /\ FLe(call.painted[k].y, FAdd(V.max.y, s))

\* C9 as stated: every point draw paints is a fixed point of snap for the same
\* grid, so draw and snap select the same offset for every row and column.
C9_DrawnIsSnapFixed ==
  DrawCalled =>
    \A k \in Emitted : snap(grid, call.painted[k]) = Ok(call.painted[k])

\* C9 as amended: for a viewport within 2^20 cells of the origin, every point
\* draw paints is a fixed point of snap for the same grid.
C9_DrawnIsSnapFixedInRange ==
  (DrawCalled /\ ViewInRange(call.viewport, grid.size)) =>
    \A k \in Emitted : snap(grid, call.painted[k]) = Ok(call.painted[k])

\* C9 witness: a hex draw painted a vertex of an odd row of negative index
\* (column for HexFlat), shifted by half a cell, and snap leaves it in place.
C9_Witness ==
  /\ DrawDone /\ IsHex /\ ViewInRange(call.viewport, grid.size)
  /\ \E k \in Emitted :
       LET q == call.painted[k]
           r == RowOf(grid, q)
       IN /\ IsOddF(r) /\ FLt(r, Zero)
          /\ q \in {HexVertex(grid, r, c) : c \in ColsNear(grid, q)}
          /\ q \notin {HexVertex(grid, FAdd(r, F(1, 0)), c) : c \in ColsNear(grid, q)}
          /\ snap(grid, q) = Ok(q)

\* C10 as stated: a hex draw returns, and every lattice vertex that lies
\* inside the viewport is painted exactly once.
C10_HexComplete ==
  (DrawCalled /\ IsHex) =>
    /\ pc = "returned"
    /\ \A v \in LatticeNear(grid, call.viewport) :
         Contains(call.viewport, v) =>
           Cardinality({k \in Emitted : call.painted[k] = v}) = 1

====
